---- MODULE Spec2Model ----
(***************************************************************************)
(* Model of the Interreg North Sea scraper (Interreg_scraper.py) and of    *)
(* the JSON to Excel converter (json_to_excel_converter.py).               *)
(*                                                                         *)
(* A Python str is a sequence of strings: an acronym is a sequence of      *)
(* one-character strings, any other text a sequence of words; '' is <<>>.  *)
(* String concatenation is \o.  Python None is the record NoneVal.         *)
(***************************************************************************)
EXTENDS Integers, Sequences, FiniteSets, TLC

VARIABLES d_acronym, d_outcome, d_doc, d_result,
          m_projects, m_details, m_io, m_result,
          pc, listing_page, projects, loop_i, all_project_details, events, export,
          main_outcome, interrupted_in,
          l_page, l_result,
          c_input, c_result

detail_vars == <<d_acronym, d_outcome, d_doc, d_result>>

merge_vars == <<m_projects, m_details, m_io, m_result>>

pipeline_vars ==
  <<pc, listing_page, projects, loop_i, all_project_details, events, export, main_outcome,
    interrupted_in>>

listing_vars == <<l_page, l_result>>

convert_vars == <<c_input, c_result>>

----------------------------------------------------------------------------
(* Bounds *)

MaxAcrLen == 2

MaxL == 2

MaxD == 2

MaxRows == 3

----------------------------------------------------------------------------
(* Text primitives *)

EmptyStr == <<>>

NoneVal == [kind |-> "None"]

UpperLetters ==
  << "A", "B", "C", "D", "E", "F", "G", "H", "I", "J", "K", "L", "M",
     "N", "O", "P", "Q", "R", "S", "T", "U", "V", "W", "X", "Y", "Z" >>

LowerLetters ==
  << "a", "b", "c", "d", "e", "f", "g", "h", "i", "j", "k", "l", "m",
     "n", "o", "p", "q", "r", "s", "t", "u", "v", "w", "x", "y", "z" >>

Digits == {"0", "1", "2", "3", "4", "5", "6", "7", "8", "9"}

Range(s) == {s[i] : i \in DOMAIN s}

\* the character class [a-zA-Z0-9] of the regular expression
IsAsciiAlnum(c) == c \in Range(UpperLetters) \cup Range(LowerLetters) \cup Digits

\* str.lower() on one character
LowerChar(c) ==
  IF c \in Range(UpperLetters)
  THEN LowerLetters[CHOOSE i \in DOMAIN UpperLetters : UpperLetters[i] = c]
  ELSE c

\* str.lower()
lower(s) == [i \in DOMAIN s |-> LowerChar(s[i])]

\* re.sub(r'[^a-zA-Z0-9]', '', s)
re_sub_non_alnum(s) == SelectSeq(s, IsAsciiAlnum)

project_base_url == <<"https://www.interregnorthsea.eu">>

\* clean_acronym and project_url of the try block
clean_acronym(acronym) == lower(re_sub_non_alnum(acronym))

project_url(acronym) ==
  project_base_url \o <<"/">> \o clean_acronym(acronym) \o <<"/about-us">>

\* the url expression of the `except requests.RequestException` handler
request_failed_url(acronym) ==
  project_base_url \o <<"/">> \o lower(re_sub_non_alnum(acronym)) \o <<"/about-us">>

\* faulty variant: the handler's url without .lower()
scraping_failed_url_NoLower(acronym) ==
  project_base_url \o <<"/">> \o re_sub_non_alnum(acronym) \o <<"/about-us">>

\* the url expression of the `except Exception` handler
scraping_failed_url(acronym) ==
  project_base_url \o <<"/">> \o lower(re_sub_non_alnum(acronym)) \o <<"/about-us">>

----------------------------------------------------------------------------
(* Parsed documents: what the BeautifulSoup queries of the scraper return.  *)
(* A document is a record                                                   *)
(*   title            texts of the <title> elements                         *)
(*   main, div_main_content, div_content                                    *)
(*                    texts of <main>, div.main-content, div.content        *)
(*   meta_desc        the <meta name="description"> tags                    *)
(*   body             the sibling elements [name, text, items] in document  *)
(*                    order (items: the <li> texts of a list)               *)
(*   captures         re.findall of each of the five partner patterns on    *)
(*                    soup.get_text()                                       *)
(* Texts are stored as get_text(strip=True) returns them.                   *)

\* the keywords a word contains as a substring of its lower-cased form
WordKws(w) ==
  CASE w = "Partners"      -> {"partner", "partners"}
    [] w = "partner"       -> {"partner"}
    [] w = "consortium"    -> {"consortium"}
    [] w = "team"          -> {"team"}
    [] w = "Objectives"    -> {"objective"}
    [] w = "goal"          -> {"goal"}
    [] w = "Start"         -> {"start"}
    [] w = "date"          -> {"date"}
    [] w = "Budget"        -> {"budget"}
    [] w = "funding"       -> {"funding"}
    [] OTHER               -> {}

\* len() of a word
WordLen(w) ==
  CASE w = "Partners"      -> 8
    [] w = "partner"       -> 7
    [] w = "consortium"    -> 10
    [] w = "team"          -> 4
    [] w = "Objectives"    -> 10
    [] w = "goal"          -> 4
    [] w = "Start"         -> 5
    [] w = "date"          -> 4
    [] w = "Budget"        -> 6
    [] w = "funding"       -> 7
    [] w = "University"    -> 10
    [] w = "Aalborg"       -> 7
    [] w = "Project"       -> 7
    [] w = "of"            -> 2
    [] OTHER               -> 1

RECURSIVE SumLen(_)
SumLen(t) == IF t = <<>> THEN 0 ELSE WordLen(Head(t)) + SumLen(Tail(t))

\* len(text): the words and the single spaces between them
TextLen(t) == IF t = <<>> THEN 0 ELSE SumLen(t) + Len(t) - 1

\* kw in text.lower()
ContainsKw(t, kw) == \E i \in DOMAIN t : kw \in WordKws(t[i])

Whitespace == {" ", "\n"}

RECURSIVE LStrip(_)
LStrip(t) ==
  IF t # <<>> /\ Head(t) \in Whitespace THEN LStrip(Tail(t)) ELSE t

RECURSIVE RStrip(_)
RStrip(t) ==
  IF t # <<>> /\ t[Len(t)] \in Whitespace THEN RStrip(SubSeq(t, 1, Len(t) - 1)) ELSE t

\* str.strip()
Strip(t) == RStrip(LStrip(t))

RECURSIVE Flatten(_)
Flatten(ss) == IF ss = <<>> THEN <<>> ELSE Head(ss) \o Flatten(Tail(ss))

\* sep.join(ts)
RECURSIVE Join(_, _)
Join(ts, sep) ==
  IF ts = <<>> THEN <<>>
  ELSE IF Len(ts) = 1 THEN ts[1]
  ELSE ts[1] \o sep \o Join(Tail(ts), sep)

Texts(es) == [i \in DOMAIN es |-> es[i].text]

HeadingNames == {"h1", "h2", "h3", "h4", "h5", "h6"}

partner_indicators ==
  <<"partner", "partners", "consortium", "collaboration", "team", "members">>

AnyIndicator(t) == \E n \in DOMAIN partner_indicators : ContainsKw(t, partner_indicators[n])

\* soup.find_all(names), on the sibling elements
find_all(body, names) == SelectSeq(body, LAMBDA e : e.name \in names)

\* extract_section_content(heading), the heading being body[k]
extract_section_content(body, k) ==
  LET later == {j \in (k + 1)..Len(body) : body[j].name \in HeadingNames}
      stop == IF later = {} THEN Len(body) + 1
              ELSE CHOOSE j \in later : \A j2 \in later : j <= j2
      sibs == SubSeq(body, k + 1, stop - 1)
      content == SelectSeq(sibs, LAMBDA e :
                    /\ e.name \in {"p", "div", "span"}
                    /\ e.text # EmptyStr
                    /\ TextLen(e.text) > 10)
  IN Join(Texts(content), <<"\n">>)

\* faulty variant: a heading is taken once, however many indicators it contains
HeadingScan_OncePerHeading(body) ==
  Flatten([k \in DOMAIN body |->
    IF /\ body[k].name \in HeadingNames
       /\ AnyIndicator(body[k].text)
       /\ extract_section_content(body, k) # EmptyStr
    THEN body[k].text \o <<":", "\n">> \o extract_section_content(body, k)
           \o <<"\n", "\n">>
    ELSE <<>>])

\* Method 1: partner-related headings and the content that follows them
HeadingScan(body) ==
  Flatten([n \in DOMAIN partner_indicators |->
    Flatten([k \in DOMAIN body |->
      IF /\ body[k].name \in HeadingNames
         /\ ContainsKw(body[k].text, partner_indicators[n])
         /\ extract_section_content(body, k) # EmptyStr
      THEN body[k].text \o <<":", "\n">> \o extract_section_content(body, k)
             \o <<"\n", "\n">>
      ELSE <<>>])])

\* Method 2: paragraphs that mention a partner indicator
ParagraphScan(body) ==
  LET partner_paragraphs ==
        SelectSeq(find_all(body, {"p"}), LAMBDA p :
          AnyIndicator(p.text) /\ TextLen(p.text) > 20)
  IN IF partner_paragraphs # <<>>
     THEN <<"Partner Information:", "\n">>
            \o Join(Texts(partner_paragraphs), <<"\n">>) \o <<"\n", "\n">>
     ELSE <<>>

\* Method 3: lists whose items look like partner names
ListScan(body) ==
  LET lists == find_all(body, {"ul", "ol"})
  IN Flatten([l \in DOMAIN lists |->
       LET partner_items ==
             SelectSeq(lists[l].items, LAMBDA it : AnyIndicator(it) \/ TextLen(it) > 10)
       IN IF partner_items # <<>>
          THEN <<"Partner List:", "\n">> \o Join(partner_items, <<"\n">>) \o <<"\n", "\n">>
          ELSE <<>>])

\* Method 4: the captures of the five partner patterns
PatternScan(captures) ==
  Flatten([p \in DOMAIN captures |->
    Flatten([m \in DOMAIN captures[p] |->
      IF Strip(captures[p][m]) # EmptyStr /\ TextLen(Strip(captures[p][m])) > 10
      THEN <<"Found:">> \o Strip(captures[p][m]) \o <<"\n">>
      ELSE <<>>])])

extract_partner_information(doc) ==
  LET partners_text == HeadingScan(doc.body) \o ParagraphScan(doc.body)
                         \o ListScan(doc.body) \o PatternScan(doc.captures)
  IN IF partners_text # EmptyStr THEN Strip(partners_text) ELSE EmptyStr

\* faulty variant: three independent ifs, an element may set several fields
RECURSIVE ScanSections_NoElif(_, _)
ScanSections_NoElif(sections, details) ==
  IF sections = <<>> THEN details
  ELSE LET text == Head(sections).text
           d1 == IF ContainsKw(text, "objective") \/ ContainsKw(text, "goal")
                 THEN [details EXCEPT !.objectives = text] ELSE details
           d2 == IF ContainsKw(text, "start") /\ ContainsKw(text, "date")
                 THEN [d1 EXCEPT !.start_date = text] ELSE d1
           d3 == IF ContainsKw(text, "budget") \/ ContainsKw(text, "funding")
                 THEN [d2 EXCEPT !.budget = text] ELSE d2
       IN ScanSections_NoElif(Tail(sections), d3)

\* the loop over soup.find_all(['h2', 'h3', 'p']): later matches overwrite earlier ones
RECURSIVE ScanSections(_, _)
ScanSections(sections, details) ==
  IF sections = <<>> THEN details
  ELSE LET text == Head(sections).text
           next ==
             IF ContainsKw(text, "objective") \/ ContainsKw(text, "goal")
             THEN [details EXCEPT !.objectives = text]
             ELSE IF ContainsKw(text, "start") /\ ContainsKw(text, "date")
             THEN [details EXCEPT !.start_date = text]
             ELSE IF ContainsKw(text, "budget") \/ ContainsKw(text, "funding")
             THEN [details EXCEPT !.budget = text]
             ELSE details
       IN ScanSections(Tail(sections), next)

----------------------------------------------------------------------------
(* Exceptions.  HTTPError (raise_for_status on a non-2xx status) and        *)
(* ConnectionError are requests.RequestException; ParseError stands for any *)
(* other Exception raised while parsing; KeyboardInterrupt is a             *)
(* BaseException that is no Exception.                                      *)

RequestExceptions == {"ConnectionError", "HTTPError"}

Exceptions == RequestExceptions \cup {"ParseError"}

\* str(e)
ExcMessage(exc) ==
  CASE exc = "ConnectionError" -> <<"connection", "refused">>
    [] exc = "HTTPError"       -> <<"404", "Client", "Error">>
    [] OTHER                   -> EmptyStr

\* what session.get, raise_for_status and the parsing can end in
FetchOutcomes == {"ok", "ConnectionError", "HTTPError", "ParseError", "KeyboardInterrupt"}

Returned(v) == [kind |-> "return", value |-> v]

Raised(exc) == [kind |-> "raise", exc |-> exc]

\* soup.find(name) on the sibling elements: the first one or None
find(body, names) ==
  IF find_all(body, names) = <<>> THEN NoneVal ELSE Head(find_all(body, names))

\* the body of the try block of scrape_project_details
scrape_try(acronym, outcome, doc) ==
  IF outcome # "ok" THEN Raised(outcome)
  ELSE
    LET initial == [acronym |-> acronym, url |-> project_url(acronym),
                    status |-> "success", title |-> EmptyStr,
                    description |-> EmptyStr, objectives |-> EmptyStr,
                    partners |-> EmptyStr, start_date |-> EmptyStr,
                    end_date |-> EmptyStr, budget |-> EmptyStr,
                    main_content |-> EmptyStr, error |-> EmptyStr]
        h1 == find(doc.body, {"h1"})
        title == IF h1 # NoneVal THEN h1.text
                 ELSE IF doc.title # <<>> THEN doc.title[1]
                 ELSE EmptyStr
        main_content == IF doc.main # <<>> THEN doc.main[1]
                        ELSE IF doc.div_main_content # <<>> THEN doc.div_main_content[1]
                        ELSE IF doc.div_content # <<>> THEN doc.div_content[1]
                        ELSE EmptyStr
        partners_text == extract_partner_information(doc)
        first_p == find(doc.body, {"p"})
        description == IF doc.meta_desc # <<>>
                       THEN (IF doc.meta_desc[1].has_content
                             THEN doc.meta_desc[1].content ELSE EmptyStr)
                       ELSE IF first_p # NoneVal THEN first_p.text
                       ELSE EmptyStr
        scanned == ScanSections(find_all(doc.body, {"h2", "h3", "p"}),
                                [initial EXCEPT !.title = title,
                                                !.main_content = main_content,
                                                !.partners = partners_text])
    IN Returned([scanned EXCEPT !.description = description])

\* faulty variant: a handler that records the failure without its cause
FailedRecord_NoError(acronym, url, error) ==
  [acronym |-> acronym, url |-> url, status |-> "failed", title |-> EmptyStr,
   description |-> EmptyStr, objectives |-> EmptyStr, partners |-> EmptyStr,
   start_date |-> EmptyStr, end_date |-> EmptyStr, budget |-> EmptyStr,
   main_content |-> EmptyStr, error |-> EmptyStr]

\* faulty variant: the failure is recorded under the cleaned acronym
FailedRecord_CleanAcronym(acronym, url, error) ==
  [acronym |-> clean_acronym(acronym), url |-> url, status |-> "failed",
   title |-> EmptyStr, description |-> EmptyStr, objectives |-> EmptyStr,
   partners |-> EmptyStr, start_date |-> EmptyStr, end_date |-> EmptyStr,
   budget |-> EmptyStr, main_content |-> EmptyStr, error |-> error]

\* the record both except handlers build
FailedRecord(acronym, url, error) ==
  [acronym |-> acronym, url |-> url, status |-> "failed", title |-> EmptyStr,
   description |-> EmptyStr, objectives |-> EmptyStr, partners |-> EmptyStr,
   start_date |-> EmptyStr, end_date |-> EmptyStr, budget |-> EmptyStr,
   main_content |-> EmptyStr, error |-> error]

\* faulty variant: only `except requests.RequestException`, no `except Exception`
scrape_project_details_NoExceptClause(acronym, outcome, doc) ==
  LET r == scrape_try(acronym, outcome, doc)
  IN IF r.kind = "return" THEN r
     ELSE IF r.exc \in RequestExceptions
     THEN Returned(FailedRecord(acronym, request_failed_url(acronym),
                                <<"Request failed:">> \o ExcMessage(r.exc)))
     ELSE r

\* scrape_project_details(acronym): the try block and its two except clauses
scrape_project_details(acronym, outcome, doc) ==
  LET r == scrape_try(acronym, outcome, doc)
  IN IF r.kind = "return" THEN r
     ELSE IF r.exc \in RequestExceptions
     THEN Returned(FailedRecord(acronym, request_failed_url(acronym),
                                <<"Request failed:">> \o ExcMessage(r.exc)))
     ELSE IF r.exc \in Exceptions
     THEN Returned(FailedRecord(acronym, scraping_failed_url(acronym),
                                <<"Scraping failed:">> \o ExcMessage(r.exc)))
     ELSE r

----------------------------------------------------------------------------
(* Inputs of scrape_project_details *)

\* characters acronyms are drawn from: letters of both cases, a digit, punctuation
Chars == {"N", "n", "1", "-"}

SeqsUpTo(S, n) == UNION {[1..k -> S] : k \in 0..n}

Acronyms == SeqsUpTo(Chars, MaxAcrLen)

El(name, text) == [name |-> name, text |-> text, items |-> <<>>]

Ul(items) == [name |-> "ul", text |-> Join(items, <<>>), items |-> items]

NoCaptures == << <<>>, <<>>, <<>>, <<>>, <<>> >>

DocEmpty ==
  [title |-> <<>>, main |-> <<>>, div_main_content |-> <<>>, div_content |-> <<>>,
   meta_desc |-> <<>>, body |-> <<>>, captures |-> NoCaptures]

DocFull ==
  [title |-> << <<"Project">> >>,
   main |-> << <<"Project", "Aalborg">> >>,
   div_main_content |-> <<>>,
   div_content |-> << <<"Aalborg">> >>,
   meta_desc |-> << [has_content |-> TRUE, content |-> <<"Project", "of", "Aalborg">>] >>,
   body |-> << El("h1", <<"Project", "Aalborg">>),
               El("h2", <<"Partners">>),
               El("p", <<"University", "of", "Aalborg", "consortium">>),
               Ul(<< <<"University", "of", "Aalborg">>, <<"team">>, <<"of">> >>),
               El("h3", <<"Objectives">>),
               El("p", <<"Start", "date", "Budget">>),
               El("p", <<"Budget", "funding">>) >>,
   captures |-> << << <<" ", "University", "of", "Aalborg", " ">> >>,
                   <<>>, <<>>, << <<"of">> >>, <<>> >>]

DocPlain ==
  [title |-> << <<"Project">> >>,
   main |-> <<>>,
   div_main_content |-> << <<"Project", "of">> >>,
   div_content |-> <<>>,
   meta_desc |-> << [has_content |-> FALSE, content |-> EmptyStr] >>,
   body |-> << El("p", <<"Project">>) >>,
   captures |-> NoCaptures]

DocNoMeta ==
  [title |-> <<>>, main |-> <<>>, div_main_content |-> <<>>,
   div_content |-> << <<"Aalborg">> >>,
   meta_desc |-> <<>>,
   body |-> << El("h2", <<"goal">>), El("p", <<"Project", "funding">>) >>,
   captures |-> NoCaptures]

Docs == {DocEmpty, DocFull, DocPlain, DocNoMeta}

----------------------------------------------------------------------------
(* One call of scrape_project_details on any acronym, outcome and document *)

CallDetail ==
  /\ d_result = NoneVal
  /\ d_result' = scrape_project_details(d_acronym, d_outcome, d_doc)
  /\ UNCHANGED <<d_acronym, d_outcome, d_doc>>
  /\ UNCHANGED <<merge_vars, pipeline_vars, listing_vars, convert_vars>>

----------------------------------------------------------------------------
(* One call of scrape_project_details on any page body *)

MaxBody == 2

\* texts with the keywords of each field, of several fields, and of none
SectionTexts ==
  {<<"Objectives">>, <<"goal", "Budget">>, <<"Start", "date">>,
   <<"Start", "date", "funding">>, <<"Start">>, <<"Budget">>, <<"funding">>}

\* the elements the section scan visits, and a heading it does not visit
SectionElements == {El(n, t) : n \in {"h2", "h3", "p", "h4"}, t \in SectionTexts}

SectionDocs == {[DocEmpty EXCEPT !.body = b] : b \in SeqsUpTo(SectionElements, MaxBody)}

\* elements for the partner heuristics: headings with and without an indicator,
\* paragraphs and list items long and short, with and without an indicator
PartnerElements ==
  {El("h2", <<"Partners">>), El("h3", <<"Project">>),
   El("p", <<"University", "of", "Aalborg", "consortium">>), El("p", <<"team">>),
   El("div", <<"University", "of", "Aalborg">>),
   Ul(<< <<"University", "of", "Aalborg">>, <<"of">> >>), Ul(<< <<"of">> >>)}

\* captures of the five patterns: none, one long enough, the same one under two
\* patterns, and ones too short or blank
PartnerCaptures ==
  {NoCaptures,
   << << <<" ", "University", "of", "Aalborg", " ">> >>, <<>>, <<>>, <<>>, <<>> >>,
   << << <<" ", "University", "of", "Aalborg", " ">> >>,
      << <<" ", "University", "of", "Aalborg", " ">> >>, <<>>, <<>>, <<>> >>,
   << <<>>, <<>>, <<>>, << <<"of">>, <<" ">> >>, <<>> >>}

PartnerDocs ==
  {[DocEmpty EXCEPT !.body = b, !.captures = c] :
     b \in SeqsUpTo(PartnerElements, MaxBody), c \in PartnerCaptures}

ScanDocs == SectionDocs \cup PartnerDocs

----------------------------------------------------------------------------
(* Listing records *)

\* the keys of project_data, in the order of their table columns
ListingFields ==
  <<"call", "priority", "specific_objective", "acronym", "summary", "lead_partner",
    "start_end", "total_budget", "erdf_funding", "norway_funding">>

ColumnOf(f) == CHOOSE j \in DOMAIN ListingFields : ListingFields[j] = f

\* project_data of one table row, cells being the texts of its cells
project_data(cells) ==
  [f \in Range(ListingFields) |->
     IF Len(cells) > ColumnOf(f) - 1 THEN cells[ColumnOf(f)] ELSE EmptyStr]

\* the text of cell j of the table's data row p, and a row of n cells
CellText(j, p) ==
  <<IF j \in DOMAIN ListingFields THEN ListingFields[j] ELSE "extra", ToString(p)>>

Row(p, acronym, n) ==
  [j \in 1..n |-> IF j = ColumnOf("acronym") THEN acronym ELSE CellText(j, p)]

----------------------------------------------------------------------------
(* create_ultimate_files *)

DetailColumns ==
  {"status", "title", "description", "objectives", "partners", "start_date",
   "end_date", "budget", "main_content", "error"}

UltimateFields == Range(ListingFields) \cup {"project_url"} \cup DetailColumns

\* the keys of an ultimate_row in insertion order: the CSV header
fieldnames ==
  <<"acronym", "call", "priority", "specific_objective", "summary", "lead_partner",
    "start_end", "total_budget", "erdf_funding", "norway_funding", "project_url",
    "status", "title", "description", "objectives", "partners", "start_date",
    "end_date", "budget", "main_content", "error">>

\* faulty variant: the last DetailRecord with the acronym instead of the first
find_detail_Last(project, project_details) ==
  LET matching == {j \in DOMAIN project_details :
                     project_details[j].acronym = project.acronym}
  IN IF matching = {} THEN NoneVal
     ELSE project_details[CHOOSE j \in matching : \A j2 \in matching : j >= j2]

\* next((pd for pd in project_details if pd['acronym'] == project['acronym']), None)
find_detail(project, project_details) ==
  LET matching == {j \in DOMAIN project_details :
                     project_details[j].acronym = project.acronym}
  IN IF matching = {} THEN NoneVal
     ELSE project_details[CHOOSE j \in matching : \A j2 \in matching : j <= j2]

\* the ultimate_row that combines basic and detailed data
combined_row(project, project_detail) ==
  [f \in UltimateFields |->
     IF f \in Range(ListingFields) THEN project[f]
     ELSE IF f = "project_url" THEN project_detail.url
     ELSE project_detail[f]]

\* faulty variant: the fallback row marked as a failed scrape
basic_row_Failed(project) ==
  [f \in UltimateFields |->
     IF f \in Range(ListingFields) THEN project[f]
     ELSE IF f = "status" THEN "failed"
     ELSE IF f = "error" THEN <<"No detailed information available">>
     ELSE EmptyStr]

\* the ultimate_row of a project without detailed info
basic_row(project) ==
  [f \in UltimateFields |->
     IF f \in Range(ListingFields) THEN project[f]
     ELSE IF f = "status" THEN "not_scraped"
     ELSE IF f = "error" THEN <<"No detailed information available">>
     ELSE EmptyStr]

ultimate_row(project, project_details) ==
  IF find_detail(project, project_details) # NoneVal
  THEN combined_row(project, find_detail(project, project_details))
  ELSE basic_row(project)

\* faulty variant: an inner join, project_list without detailed info are left out
build_ultimate_data_InnerJoin(project_list, project_details) ==
  LET found == SelectSeq(project_list, LAMBDA p : find_detail(p, project_details) # NoneVal)
  IN [i \in DOMAIN found |-> ultimate_row(found[i], project_details)]

\* the loop that fills ultimate_data
build_ultimate_data(project_list, project_details) ==
  [i \in DOMAIN project_list |-> ultimate_row(project_list[i], project_details)]

NoFile == [kind |-> "absent"]

\* the CSV file after its with block: empty unless ultimate_data has rows
CsvFile(ultimate_data) ==
  IF ultimate_data # <<>>
  THEN [kind |-> "csv", header |-> fieldnames, rows |-> ultimate_data]
  ELSE [kind |-> "csv", header |-> <<>>, rows |-> <<>>]

\* the JSON file after json.dump
JsonFile(ultimate_data) == [kind |-> "json", data |-> ultimate_data]

\* how the two open() calls can end
IoOutcomes == {"ok", "csv_open_fails", "json_open_fails"}

\* faulty variant: an empty project list is refused and nothing is written
create_ultimate_files_EmptyFails(project_list, project_details, io) ==
  LET ultimate_data == build_ultimate_data(project_list, project_details)
  IN IF io # "ok" \/ ultimate_data = <<>>
     THEN [ret |-> NoneVal, csv |-> NoFile, json |-> NoFile, ultimate_data |-> ultimate_data]
     ELSE [ret |-> [kind |-> "dict", csv |-> "csv_filepath", json |-> "json_filepath"],
           csv |-> CsvFile(ultimate_data), json |-> JsonFile(ultimate_data),
           ultimate_data |-> ultimate_data]

\* create_ultimate_files(projects, project_details): ret is the return value,
\* csv and json the files it leaves in the output folder
create_ultimate_files(project_list, project_details, io) ==
  LET ultimate_data == build_ultimate_data(project_list, project_details)
  IN IF io = "csv_open_fails"
     THEN [ret |-> NoneVal, csv |-> NoFile, json |-> NoFile,
           ultimate_data |-> ultimate_data]
     ELSE IF io = "json_open_fails"
     THEN [ret |-> NoneVal, csv |-> CsvFile(ultimate_data), json |-> NoFile,
           ultimate_data |-> ultimate_data]
     ELSE [ret |-> [kind |-> "dict", csv |-> "csv_filepath", json |-> "json_filepath"],
           csv |-> CsvFile(ultimate_data), json |-> JsonFile(ultimate_data),
           ultimate_data |-> ultimate_data]

----------------------------------------------------------------------------
(* One call of create_ultimate_files on any listing and detail sequences *)

MergeAcronyms == {<<>>, <<"N">>, <<"n">>}

\* listing sequences: record i comes from a full row i of the table
Listings(n) ==
  UNION {{[i \in 1..k |-> project_data(Row(i, a[i], Len(ListingFields)))] :
            a \in [1..k -> MergeAcronyms]} : k \in 0..n}

\* DetailRecords as scrape_project_details returns them
DetailChoices ==
  {scrape_project_details(a, o[1], o[2]).value :
     a \in MergeAcronyms, o \in {<<"ok", DocNoMeta>>, <<"HTTPError", DocEmpty>>}}

CallMerge ==
  /\ m_result = NoneVal
  /\ m_result' = create_ultimate_files(m_projects, m_details, m_io)
  /\ UNCHANGED <<m_projects, m_details, m_io>>
  /\ UNCHANGED <<detail_vars, pipeline_vars, listing_vars, convert_vars>>

----------------------------------------------------------------------------
(* scrape_project_data *)

\* how the listing request and its parsing can end
ListingOutcomes ==
  {"ok", "no_table", "ConnectionError", "HTTPError", "ParseError", "KeyboardInterrupt"}

\* faulty variant: a row of exactly four cells is dropped as well
enough_cells_MoreThanFour(cells) == Len(cells) > 4

\* the test a data row passes to become a record
enough_cells(cells) == Len(cells) >= 4

\* faulty variant: the except clauses are missing, a failed request or parse raises
scrape_project_data_NoExceptClause(response) ==
  IF response.outcome \in Exceptions \cup {"KeyboardInterrupt"}
  THEN Raised(response.outcome)
  ELSE IF response.outcome = "no_table" THEN Returned(<<>>)
  ELSE LET rows == SubSeq(response.table, 2, Len(response.table))
           kept == SelectSeq(rows, enough_cells)
       IN Returned([k \in DOMAIN kept |-> project_data(kept[k])])

\* scrape_project_data(): response.table holds the <tr> rows of the first table,
\* each the texts of its cells, the header row first
scrape_project_data(response) ==
  IF response.outcome = "KeyboardInterrupt" THEN Raised(response.outcome)
  ELSE IF response.outcome \in Exceptions THEN Returned(<<>>)
  ELSE IF response.outcome = "no_table" THEN Returned(<<>>)
  ELSE LET rows == SubSeq(response.table, 2, Len(response.table))
           kept == SelectSeq(rows, enough_cells)
       IN Returned([k \in DOMAIN kept |-> project_data(kept[k])])

\* the cell counts of the rows of a listing table: a short row and a full one
CellCounts == {3, 10}

HeaderRow == [j \in DOMAIN ListingFields |-> <<ListingFields[j]>>]

\* listing tables: the header row and up to n data rows
Tables(n) ==
  UNION {{<<HeaderRow>> \o [p \in 1..k |-> Row(p, c[p][1], c[p][2])] :
            c \in [1..k -> MergeAcronyms \X CellCounts]} : k \in 0..n}

Pages ==
  {[outcome |-> "ok", table |-> t] : t \in Tables(MaxRows)}
    \cup {[outcome |-> o, table |-> <<>>] : o \in ListingOutcomes \ {"ok"}}

----------------------------------------------------------------------------
(* main() and run_ultimate_scrape(): one pipeline run.                      *)
(*   pc                  "listing", "loop" (at the top of the detail loop,  *)
(*                       about record loop_i), "sleep", "export", "done"    *)
(*   listing_page        the listing page the run got                       *)
(*   projects            the listing records                                *)
(*   loop_i              the loop counter i of scrape_all_project_details   *)
(*   all_project_details the DetailRecords accumulated so far               *)
(*   events              history: the detail fetches and the delays, in     *)
(*                       the order they were made                           *)
(*   export              what create_ultimate_files returned and wrote,     *)
(*                       NoneVal until it has run                           *)
(*   main_outcome        which message main() ended with                    *)
(*   interrupted_in      history: where a KeyboardInterrupt was raised      *)

PipelineDocs == {DocNoMeta}

\* faulty variant: the delay is skipped before the last record as well
sleeps_OffByOne(index, total_projects) == index < total_projects - 1

\* if i < total_projects: time.sleep(delay)
sleeps(index, total_projects) == index < total_projects

\* faulty variant: a failed record is attempted again
next_record_RetryFailed(index, project_detail) ==
  IF project_detail.status = "failed" THEN index ELSE index + 1

\* the for loop moves on to the next record, whatever project_detail holds
next_record(index, project_detail) == index + 1

\* main() catches what run_ultimate_scrape lets through
MainCatches(exc, where) ==
  /\ pc' = "done"
  /\ main_outcome' = IF exc = "KeyboardInterrupt" THEN "interrupted" ELSE "error"
  /\ interrupted_in' = IF exc = "KeyboardInterrupt" THEN where ELSE interrupted_in

\* the loop goes to record j, or ends and run_ultimate_scrape goes on to the export
GoToRecord(j) ==
  /\ loop_i' = j
  /\ pc' = IF j > Len(projects) THEN "export" ELSE "loop"

\* run_ultimate_scrape up to the detail loop
ScrapeListing ==
  /\ pc = "listing"
  /\ \E pg \in Pages :
       LET r == scrape_project_data(pg)
       IN /\ listing_page' = pg
          /\ IF r.kind = "raise"
             THEN MainCatches(r.exc, "listing") /\ UNCHANGED <<projects, loop_i>>
             ELSE /\ projects' = r.value
                  /\ IF r.value = <<>>
                     THEN /\ pc' = "done"
                          /\ main_outcome' = "failed"
                          /\ UNCHANGED <<loop_i, interrupted_in>>
                     ELSE /\ pc' = "loop"
                          /\ loop_i' = 1
                          /\ UNCHANGED <<main_outcome, interrupted_in>>
  /\ UNCHANGED <<all_project_details, events, export>>
  /\ UNCHANGED <<detail_vars, merge_vars, listing_vars, convert_vars>>

\* an iteration of the detail loop on a record without acronym
SkipRecord ==
  /\ pc = "loop"
  /\ projects[loop_i].acronym = EmptyStr
  /\ GoToRecord(loop_i + 1)
  /\ UNCHANGED <<listing_page, projects, all_project_details, events, export,
                 main_outcome, interrupted_in>>
  /\ UNCHANGED <<detail_vars, merge_vars, listing_vars, convert_vars>>

\* an iteration of the detail loop up to its time.sleep
FetchDetail ==
  /\ pc = "loop"
  /\ projects[loop_i].acronym # EmptyStr
  /\ \E outcome \in FetchOutcomes, doc \in PipelineDocs :
       LET acronym == projects[loop_i].acronym
           r == scrape_project_details(acronym, outcome, doc)
       IN /\ events' = Append(events, [op |-> "fetch", index |-> loop_i, acronym |-> acronym,
                                       url |-> project_url(acronym)])
          /\ IF r.kind = "raise"
             THEN /\ MainCatches(r.exc, "fetch")
                  /\ UNCHANGED <<loop_i, all_project_details>>
             ELSE /\ all_project_details' = Append(all_project_details, r.value)
                  /\ IF sleeps(loop_i, Len(projects))
                     THEN pc' = "sleep" /\ loop_i' = loop_i
                     ELSE GoToRecord(next_record(loop_i, r.value))
                  /\ UNCHANGED <<main_outcome, interrupted_in>>
  /\ UNCHANGED <<listing_page, projects, export>>
  /\ UNCHANGED <<detail_vars, merge_vars, listing_vars, convert_vars>>

\* time.sleep(delay) returns
Sleep ==
  /\ pc = "sleep"
  /\ events' = Append(events, [op |-> "sleep", index |-> loop_i, acronym |-> EmptyStr,
                               url |-> EmptyStr])
  /\ GoToRecord(next_record(loop_i, all_project_details[Len(all_project_details)]))
  /\ UNCHANGED <<listing_page, projects, all_project_details, export, main_outcome,
                 interrupted_in>>
  /\ UNCHANGED <<detail_vars, merge_vars, listing_vars, convert_vars>>

\* the user interrupts time.sleep(delay)
InterruptSleep ==
  /\ pc = "sleep"
  /\ MainCatches("KeyboardInterrupt", "sleep")
  /\ UNCHANGED <<listing_page, projects, loop_i, all_project_details, events, export>>
  /\ UNCHANGED <<detail_vars, merge_vars, listing_vars, convert_vars>>

\* create_ultimate_files and the end of run_ultimate_scrape and main
Export ==
  /\ pc = "export"
  /\ \E io \in IoOutcomes :
       /\ export' = create_ultimate_files(projects, all_project_details, io)
       /\ main_outcome' = IF export'.ret # NoneVal THEN "success" ELSE "failed"
  /\ pc' = "done"
  /\ UNCHANGED <<listing_page, projects, loop_i, all_project_details, events, interrupted_in>>
  /\ UNCHANGED <<detail_vars, merge_vars, listing_vars, convert_vars>>

Next ==
  \/ ScrapeListing
  \/ SkipRecord
  \/ FetchDetail
  \/ Sleep
  \/ InterruptSleep
  \/ Export

----------------------------------------------------------------------------
(* One call of scrape_project_data on any listing response *)

MaxListRows == 2

\* the cell counts of a data row: none, too few, just enough, some columns
\* missing, all columns, one more than the columns
ListingCellCounts == {0, 3, 4, 7, 10, 11}

\* listing tables: no row at all, or a header row and up to n data rows
ListingTables(n) ==
  {<<>>} \cup
  UNION {{<<HeaderRow>> \o [p \in 1..k |-> Row(p, c[p][1], c[p][2])] :
            c \in [1..k -> MergeAcronyms \X ListingCellCounts]} : k \in 0..n}

ListingResponses ==
  {[outcome |-> "ok", table |-> t] : t \in ListingTables(MaxListRows)}
  \cup {[outcome |-> o, table |-> <<>>] : o \in ListingOutcomes \ {"ok"}}

CallListing ==
  /\ l_result = NoneVal
  /\ l_result' = scrape_project_data(l_page)
  /\ UNCHANGED l_page
  /\ UNCHANGED <<detail_vars, merge_vars, pipeline_vars, convert_vars>>

----------------------------------------------------------------------------
(* JSONToExcelConverter (json_to_excel_converter.py).                       *)
(* A column name is the sequence of its words and of the separators between *)
(* them: 'project_url' is <<"project", "_", "url">>.                        *)

\* the keys of the records create_ultimate_files dumps to the JSON file
ultimate_keys ==
  <<
    <<"acronym">>, <<"call">>, <<"priority">>, <<"specific", "_", "objective">>,
    <<"summary">>, <<"lead", "_", "partner">>, <<"start", "_", "end">>,
    <<"total", "_", "budget">>, <<"erdf", "_", "funding">>,
    <<"norway", "_", "funding">>, <<"project", "_", "url">>, <<"status">>, <<"title">>,
    <<"description">>, <<"objectives">>, <<"partners">>, <<"start", "_", "date">>,
    <<"end", "_", "date">>, <<"budget">>, <<"main", "_", "content">>, <<"error">>
  >>

\* col.replace('_', ' ')
str_replace_underscore(col) == [i \in DOMAIN col |-> IF col[i] = "_" THEN " " ELSE col[i]]

\* str.title() on one word: the first letter upper case, the others lower case
TitleWord(w) ==
  CASE w = "acronym" -> "Acronym"
    [] w = "budget" -> "Budget"
    [] w = "call" -> "Call"
    [] w = "content" -> "Content"
    [] w = "date" -> "Date"
    [] w = "description" -> "Description"
    [] w = "end" -> "End"
    [] w = "erdf" -> "Erdf"
    [] w = "error" -> "Error"
    [] w = "funding" -> "Funding"
    [] w = "lead" -> "Lead"
    [] w = "main" -> "Main"
    [] w = "norway" -> "Norway"
    [] w = "objective" -> "Objective"
    [] w = "objectives" -> "Objectives"
    [] w = "partner" -> "Partner"
    [] w = "partners" -> "Partners"
    [] w = "priority" -> "Priority"
    [] w = "project" -> "Project"
    [] w = "specific" -> "Specific"
    [] w = "start" -> "Start"
    [] w = "status" -> "Status"
    [] w = "summary" -> "Summary"
    [] w = "title" -> "Title"
    [] w = "total" -> "Total"
    [] w = "url" -> "Url"
    [] w = "extra" -> "Extra"
    [] OTHER -> w

\* str.title()
str_title(col) == [i \in DOMAIN col |-> TitleWord(col[i])]

\* faulty variant: the column names are not title-cased
column_label_NoTitle(col) == str_replace_underscore(col)

\* col.replace('_', ' ').title()
column_label(col) == str_title(str_replace_underscore(col))

column_order ==
  <<
    <<"Acronym">>, <<"Call">>, <<"Priority">>, <<"Specific", " ", "Objective">>,
    <<"Title">>, <<"Description">>, <<"Summary">>, <<"Lead", " ", "Partner">>,
    <<"Partners">>, <<"Objectives">>, <<"Start", " ", "End">>,
    <<"Start", " ", "Date">>, <<"End", " ", "Date">>, <<"Total", " ", "Budget">>,
    <<"Erdf", " ", "Funding">>, <<"Norway", " ", "Funding">>, <<"Budget">>,
    <<"Project", " ", "Url">>, <<"Status">>, <<"Main", " ", "Content">>, <<"Error">>
  >>

\* a missing value of a DataFrame, and how to_excel and to_csv write a value
NaN == [kind |-> "NaN"]

Render(v) == IF v = NaN THEN EmptyStr ELSE v

\* pd.DataFrame(json_data) on a list of records, with the columns renamed: the
\* columns are the keys any record has, a record without a key holds NaN there
DataFrame(json_data) ==
  LET keys == UNION {DOMAIN json_data[i] : i \in DOMAIN json_data}
      labels == {column_label(k) : k \in keys}
      key_of(l) == CHOOSE k \in keys : column_label(k) = l
  IN [columns |-> labels,
      rows |-> [i \in DOMAIN json_data |->
                  [l \in labels |-> IF key_of(l) \in DOMAIN json_data[i]
                                    THEN json_data[i][key_of(l)] ELSE NaN]]]

\* existing_columns = [col for col in column_order if col in df.columns]
existing_columns(df_columns) == SelectSeq(column_order, LAMBDA col : col \in df_columns)

\* what json.load returns: a list of records, or an object of scalars, from
\* which pd.DataFrame raises ValueError
JsonList(records) == [kind |-> "list", records |-> records]

ScalarObject == [kind |-> "object_of_scalars"]

\* not json_data
IsFalsy(json_data) ==
  \/ json_data = NoneVal
  \/ json_data.kind = "list" /\ json_data.records = <<>>

\* convert_to_dataframe(): None when anything raises
convert_to_dataframe(json_data) ==
  IF json_data = ScalarObject THEN NoneVal
  ELSE LET df == DataFrame(json_data.records)
           selected == existing_columns(df.columns)
       IN [columns |-> selected,
           rows |-> [i \in DOMAIN df.rows |->
                       [l \in Range(selected) |-> df.rows[i][l]]]]

\* what df.to_excel and df.to_csv write: the header and one row of cells per record
Sheet(df) ==
  [kind |-> "sheet", header |-> df.columns,
   rows |-> [i \in DOMAIN df.rows |->
               [j \in DOMAIN df.columns |-> Render(df.rows[i][df.columns[j]])]]]

\* how a conversion can go: the input file is not found, json.load raises, the
\* workbook cannot be written, the CSV file cannot be written
ConvertIo == {"ok", "no_input_file", "load_fails", "excel_fails", "csv_fails"}

\* load_json_data(): None when open or json.load raises
load_json_data(input) == IF input.io = "load_fails" THEN NoneVal ELSE input.json_data

\* run_conversion(): what it returns or raises, and the files it wrote
run_conversion(input) ==
  LET json_data == load_json_data(input)
      df == convert_to_dataframe(json_data)
      nothing == [outcome |-> Returned(NoneVal), excel |-> NoFile, csv |-> NoFile]
  IN IF input.io = "no_input_file" THEN nothing
     ELSE IF IsFalsy(json_data) THEN nothing
     ELSE IF df = NoneVal THEN nothing
     ELSE IF input.io = "excel_fails" THEN nothing
     ELSE IF input.io = "csv_fails"
     THEN [outcome |-> Raised("TypeError"), excel |-> Sheet(df), csv |-> NoFile]
     ELSE [outcome |-> Returned([excel |-> "excel_file", csv |-> "csv_file",
                                 dataframe |-> df]),
           excel |-> Sheet(df), csv |-> Sheet(df)]

----------------------------------------------------------------------------
(* One call of run_conversion on any JSON file *)

MaxRecs == 2

\* the key sets of a record: the keys of a consolidated record, with or without
\* 'project_url' and 'error', and with or without a key of no canonical column
ConvertKeySets ==
  {(Range(ultimate_keys) \ missing) \cup extra :
     missing \in SUBSET {<<"project", "_", "url">>, <<"error">>},
     extra \in {{}, {<<"extra">>}}}

\* record i of the file: the value of a key names the key and the record
ConvertRecord(i, keys) == [k \in keys |-> k \o <<ToString(i)>>]

JsonLists(n) ==
  UNION {{[i \in 1..k |-> ConvertRecord(i, ks[i])] : ks \in [1..k -> ConvertKeySets]} :
           k \in 0..n}

ConvertInputs ==
  {[io |-> o, json_data |-> d] :
     o \in ConvertIo, d \in {JsonList(rs) : rs \in JsonLists(MaxRecs)} \cup {ScalarObject}}

CallConvert ==
  /\ c_result = NoneVal
  /\ c_result' = run_conversion(c_input)
  /\ UNCHANGED c_input
  /\ UNCHANGED <<detail_vars, merge_vars, pipeline_vars, listing_vars>>

----------------------------------------------------------------------------
(* Specifications *)

vars == <<detail_vars, merge_vars, pipeline_vars, listing_vars, convert_vars>>

\* main() is about to run; nothing else is called
Init ==
  /\ pc = "listing"
  /\ listing_page = NoneVal
  /\ projects = <<>>
  /\ loop_i = 0
  /\ all_project_details = <<>>
  /\ events = <<>>
  /\ export = NoneVal
  /\ main_outcome = "running"
  /\ interrupted_in = "none"
  /\ d_acronym = <<>> /\ d_outcome = "ok" /\ d_doc = DocEmpty /\ d_result = NoneVal
  /\ m_projects = <<>> /\ m_details = <<>> /\ m_io = "ok" /\ m_result = NoneVal
  /\ l_page = NoneVal /\ l_result = NoneVal /\ c_input = NoneVal /\ c_result = NoneVal

\* a run of main()
Spec == Init /\ [][Next]_vars

\* scrape_project_details is about to be called on any acronym, outcome and document
InitDetail ==
  /\ d_acronym \in Acronyms
  /\ d_outcome \in FetchOutcomes
  /\ d_doc \in (IF d_outcome = "ok" THEN Docs ELSE {DocEmpty})
  /\ d_result = NoneVal
  /\ m_projects = <<>> /\ m_details = <<>> /\ m_io = "ok" /\ m_result = NoneVal
  /\ pc = "idle" /\ listing_page = NoneVal /\ projects = <<>> /\ loop_i = 0
  /\ all_project_details = <<>> /\ events = <<>> /\ export = NoneVal
  /\ main_outcome = "idle" /\ interrupted_in = "none"
  /\ l_page = NoneVal /\ l_result = NoneVal /\ c_input = NoneVal /\ c_result = NoneVal

SpecDetail == InitDetail /\ [][CallDetail]_vars

\* create_ultimate_files is about to be called on any listing and detail sequences
InitMerge ==
  /\ m_projects \in Listings(MaxL)
  /\ m_details \in SeqsUpTo(DetailChoices, MaxD)
  /\ m_io \in IoOutcomes
  /\ m_result = NoneVal
  /\ d_acronym = <<>> /\ d_outcome = "ok" /\ d_doc = DocEmpty /\ d_result = NoneVal
  /\ pc = "idle" /\ listing_page = NoneVal /\ projects = <<>> /\ loop_i = 0
  /\ all_project_details = <<>> /\ events = <<>> /\ export = NoneVal
  /\ main_outcome = "idle" /\ interrupted_in = "none"
  /\ l_page = NoneVal /\ l_result = NoneVal /\ c_input = NoneVal /\ c_result = NoneVal

SpecMerge == InitMerge /\ [][CallMerge]_vars

\* scrape_project_data is about to be called on any listing response
InitListing ==
  /\ l_page \in ListingResponses
  /\ l_result = NoneVal
  /\ c_input = NoneVal /\ c_result = NoneVal
  /\ d_acronym = <<>> /\ d_outcome = "ok" /\ d_doc = DocEmpty /\ d_result = NoneVal
  /\ m_projects = <<>> /\ m_details = <<>> /\ m_io = "ok" /\ m_result = NoneVal
  /\ pc = "idle" /\ listing_page = NoneVal /\ projects = <<>> /\ loop_i = 0
  /\ all_project_details = <<>> /\ events = <<>> /\ export = NoneVal
  /\ main_outcome = "idle" /\ interrupted_in = "none"

SpecListing == InitListing /\ [][CallListing]_vars

\* scrape_project_details is about to be called on a page that loads, with any body
InitScan ==
  /\ d_acronym = <<"N">>
  /\ d_outcome = "ok"
  /\ d_doc \in ScanDocs
  /\ d_result = NoneVal
  /\ l_page = NoneVal /\ l_result = NoneVal /\ c_input = NoneVal /\ c_result = NoneVal
  /\ m_projects = <<>> /\ m_details = <<>> /\ m_io = "ok" /\ m_result = NoneVal
  /\ pc = "idle" /\ listing_page = NoneVal /\ projects = <<>> /\ loop_i = 0
  /\ all_project_details = <<>> /\ events = <<>> /\ export = NoneVal
  /\ main_outcome = "idle" /\ interrupted_in = "none"

SpecScan == InitScan /\ [][CallDetail]_vars

\* run_conversion is about to be called on any JSON file
InitConvert ==
  /\ c_input \in ConvertInputs
  /\ c_result = NoneVal
  /\ l_page = NoneVal /\ l_result = NoneVal
  /\ d_acronym = <<>> /\ d_outcome = "ok" /\ d_doc = DocEmpty /\ d_result = NoneVal
  /\ m_projects = <<>> /\ m_details = <<>> /\ m_io = "ok" /\ m_result = NoneVal
  /\ pc = "idle" /\ listing_page = NoneVal /\ projects = <<>> /\ loop_i = 0
  /\ all_project_details = <<>> /\ events = <<>> /\ export = NoneVal
  /\ main_outcome = "idle" /\ interrupted_in = "none"

SpecConvert == InitConvert /\ [][CallConvert]_vars

----------------------------------------------------------------------------
(* Claims about scrape_project_details (SpecDetail) *)

DetailFields ==
  {"acronym", "url", "status", "title", "description", "objectives", "partners",
   "start_date", "end_date", "budget", "main_content", "error"}

\* the failures of the fetch and of the parsing: every outcome that is an Exception
FailureOutcomes == FetchOutcomes \cap Exceptions

DetailCalled == d_result # NoneVal

\* C2: for every acronym and every outcome of the fetch and of the parsing,
\* scrape_project_details returns a DetailRecord instead of raising, and every
\* failure (transport error, non-2xx status, parsing exception) has status 'failed'.
C2_NeverRaises ==
  (DetailCalled /\ d_outcome \in FailureOutcomes \cup {"ok"}) =>
    /\ d_result.kind = "return"
    /\ DOMAIN d_result.value = DetailFields
    /\ d_result.value.acronym = d_acronym
    /\ d_outcome \in FailureOutcomes => d_result.value.status = "failed"

C2_Witness ==
  /\ DetailCalled
  /\ d_outcome = "ParseError"
  /\ d_result.kind = "return"
  /\ d_result.value.status = "failed"

\* C3: a returned DetailRecord is either a success with an empty error, or a
\* failure with a non-empty error, its url present and every text field empty.
C3_StatusInvariant ==
  (DetailCalled /\ d_result.kind = "return") =>
    LET r == d_result.value
        success == r.status = "success" /\ r.error = EmptyStr
        failed == /\ r.status = "failed"
                  /\ r.error # EmptyStr
                  /\ r.url # EmptyStr
                  /\ \A f \in {"title", "description", "objectives", "partners",
                               "start_date", "end_date", "budget", "main_content"} :
                       r[f] = EmptyStr
    IN (success \/ failed) /\ ~(success /\ failed)

C3_Witness ==
  /\ DetailCalled
  /\ d_outcome = "HTTPError"
  /\ d_result.kind = "return"
  /\ d_result.value.status = "failed"
  /\ d_result.value.error = <<"Request failed:", "404", "Client", "Error">>

\* the acronym with every character that is no ASCII letter or digit removed
\* and the rest lower-cased, character by character
RECURSIVE CleanedForm(_)
CleanedForm(a) ==
  IF a = <<>> THEN <<>>
  ELSE (IF LowerChar(Head(a)) \in Range(LowerLetters) \cup Digits
        THEN <<LowerChar(Head(a))>> ELSE <<>>) \o CleanedForm(Tail(a))

ExpectedUrl(a) == project_base_url \o <<"/">> \o CleanedForm(a) \o <<"/about-us">>

\* C4: the url of the DetailRecord is {site_root}/{c}/about-us, c the cleaned
\* acronym, on the success path and on both failure paths; any acronym with the
\* same cleaned form gets the same url under any outcome and document.
C4_UrlDeterministic ==
  (DetailCalled /\ d_result.kind = "return") =>
    /\ d_result.value.url = ExpectedUrl(d_acronym)
    /\ \A a2 \in Acronyms :
         CleanedForm(a2) = CleanedForm(d_acronym) =>
           \A o2 \in FailureOutcomes \cup {"ok"} :
             \A doc2 \in (IF o2 = "ok" THEN Docs ELSE {DocEmpty}) :
               scrape_project_details(a2, o2, doc2).value.url = d_result.value.url

C4_Witness ==
  /\ DetailCalled
  /\ d_acronym = <<"N", "-">>
  /\ d_outcome = "ParseError"
  /\ d_result.kind = "return"
  /\ d_result.value.url = scrape_project_details(<<"n">>, "ok", DocFull).value.url
  /\ d_result.value.url = <<"https://www.interregnorthsea.eu", "/", "n", "/about-us">>

----------------------------------------------------------------------------
(* Claims about the merge step of create_ultimate_files (SpecMerge) *)

MergeCalled == m_result # NoneVal

Matching(i) == {j \in DOMAIN m_details : m_details[j].acronym = m_projects[i].acronym}

FirstMatching(i) == CHOOSE j \in Matching(i) : \A j2 \in Matching(i) : j <= j2

\* C1: the consolidated sequence has exactly one record per listing record, in
\* listing order, record i carrying the listing fields of listing record i,
\* whatever the detail sequence holds (nothing, unknown or duplicate acronyms).
C1_LeftJoin ==
  MergeCalled =>
    /\ Len(m_result.ultimate_data) = Len(m_projects)
    /\ \A i \in DOMAIN m_projects : \A f \in Range(ListingFields) :
         m_result.ultimate_data[i][f] = m_projects[i][f]
    /\ m_result.json # NoFile => m_result.json.data = m_result.ultimate_data

C1_Witness ==
  /\ MergeCalled
  /\ Len(m_projects) = 2
  /\ m_projects[1].acronym = m_projects[2].acronym
  /\ m_projects[1].acronym = <<"N">>
  /\ Len(m_details) = 2
  /\ m_details[1].acronym = <<"n">>
  /\ m_details[2].acronym = <<"n">>
  /\ Len(m_result.ultimate_data) = 2
  /\ m_result.ultimate_data[2].call = <<"call", "2">>

\* C9: a listing record without a DetailRecord of the same acronym is
\* consolidated with its listing fields, every detail field empty,
\* status 'not_scraped' and error 'No detailed information available'.
C9_NotScrapedFallback ==
  MergeCalled =>
    \A i \in DOMAIN m_projects :
      Matching(i) = {} =>
        LET row == m_result.ultimate_data[i]
        IN /\ DOMAIN row = UltimateFields
           /\ \A f \in Range(ListingFields) : row[f] = m_projects[i][f]
           /\ \A f \in {"project_url", "title", "description", "objectives", "partners",
                        "start_date", "end_date", "budget", "main_content"} :
                row[f] = EmptyStr
           /\ row.status = "not_scraped"
           /\ row.error = <<"No detailed information available">>

C9_Witness ==
  /\ MergeCalled
  /\ Len(m_projects) = 1
  /\ m_projects[1].acronym = <<"N">>
  /\ Len(m_details) = 1
  /\ m_details[1].acronym = <<"n">>
  /\ m_result.ultimate_data[1].status = "not_scraped"
  /\ m_result.ultimate_data[1].call = <<"call", "1">>

\* C10: a listing record with DetailRecords of its acronym takes its detail fields
\* from the first of them; the consolidated records come from nothing else, so
\* later DetailRecords of that acronym and DetailRecords of acronyms that no
\* listing record has contribute to no consolidated record.
C10_FirstMatchWins ==
  MergeCalled =>
    /\ Len(m_result.ultimate_data) = Len(m_projects)
    /\ \A i \in DOMAIN m_projects :
         LET row == m_result.ultimate_data[i]
         IN IF Matching(i) # {}
            THEN /\ row.project_url = m_details[FirstMatching(i)].url
                 /\ \A f \in DetailColumns : row[f] = m_details[FirstMatching(i)][f]
            ELSE row.status = "not_scraped"

C10_Witness ==
  /\ MergeCalled
  /\ Len(m_projects) = 1
  /\ Len(m_details) = 2
  /\ m_projects[1].acronym = <<"N">>
  /\ m_details[1].acronym = <<"N">>
  /\ m_details[2].acronym = <<"N">>
  /\ m_details[1].status = "failed"
  /\ m_details[2].status = "success"
  /\ m_result.ultimate_data[1].status = "failed"

----------------------------------------------------------------------------
(* Claims about the pipeline run (Spec) *)

Fetches == {k \in DOMAIN events : events[k].op = "fetch"}

NonEmptyAcronym(r) == r.acronym # EmptyStr

AcronymsOf(rs) == [k \in DOMAIN rs |-> rs[k].acronym]

\* C5: whatever fetches and parsings fail, a run that is not interrupted and got
\* a listing ends the detail loop with one DetailRecord for each listing record
\* with a non-empty acronym, in listing order, and goes on to consolidate and
\* export: it never ends with an exception or without having called the export.
C5_FailuresDoNotStopLoop ==
  /\ main_outcome # "error"
  /\ (pc \in {"export", "done"} /\ projects # <<>> /\ interrupted_in = "none") =>
       /\ AcronymsOf(all_project_details)
            = AcronymsOf(SelectSeq(projects, NonEmptyAcronym))
       /\ pc = "done" =>
            /\ export # NoneVal
            /\ export.ultimate_data = build_ultimate_data(projects, all_project_details)
            /\ main_outcome \in {"success", "failed"}

C5_Witness ==
  /\ pc = "done"
  /\ interrupted_in = "none"
  /\ Len(projects) = 3
  /\ Len(all_project_details) = 3
  /\ all_project_details[1].status = "failed"
  /\ all_project_details[2].status = "failed"
  /\ all_project_details[3].status = "success"
  /\ export # NoneVal
  /\ export.ret # NoneVal
  /\ main_outcome = "success"

\* C6: a run interrupted in the detail loop still exports the DetailRecords it
\* had accumulated: once it is done, the consolidated records of the listing and
\* of those DetailRecords have been written.
C6_InterruptStillExports ==
  (pc = "done" /\ interrupted_in \in {"fetch", "sleep"}) =>
    /\ export # NoneVal
    /\ export.ultimate_data = build_ultimate_data(projects, all_project_details)

\* C7: no two detail fetches without a delay between them: a fetch is never
\* directly followed by another fetch, whatever the listing holds.
C7_DelayBetweenFetches ==
  \A k \in Fetches, l \in Fetches :
    k < l => \E m \in (k + 1)..(l - 1) : events[m].op = "sleep"

C7_Witness ==
  /\ pc = "done"
  /\ Len(projects) = 3
  /\ projects[2].acronym = EmptyStr
  /\ Len(all_project_details) = 2
  /\ [k \in DOMAIN events |-> events[k].op] = <<"fetch", "sleep", "fetch">>

\* C8 as stated: each acronym is fetched at most once in a run.
C8_AcronymFetchedOnce ==
  \A k \in Fetches, l \in Fetches : k # l => events[k].acronym # events[l].acronym

\* C8, amended: there is no retry: each listing record is fetched at most once,
\* the records are fetched in listing order, every completed fetch has appended
\* exactly one DetailRecord, and a record whose fetch failed is not fetched again.
C8_NoRetry ==
  /\ \A k \in Fetches, l \in Fetches : k < l => events[k].index < events[l].index
  /\ \A k \in Fetches : /\ events[k].index \in DOMAIN projects
                        /\ events[k].acronym = projects[events[k].index].acronym
                        /\ events[k].acronym # EmptyStr
  /\ Len(all_project_details) \in {Cardinality(Fetches) - 1, Cardinality(Fetches)}
  /\ interrupted_in # "fetch" => Len(all_project_details) = Cardinality(Fetches)

C8_Witness ==
  /\ pc = "done"
  /\ Len(projects) = 2
  /\ projects[1].acronym = projects[2].acronym
  /\ Cardinality(Fetches) = 2
  /\ Len(all_project_details) = 2
  /\ all_project_details[1].status = "failed"
  /\ all_project_details[2].status = "success"

----------------------------------------------------------------------------
(* scrape_project_data: rows to records *)

ListingCalled == l_result # NoneVal

\* the rows after the header row
DataRows(table) == [r \in 1..(Len(table) - 1) |-> table[r + 1]]

ShortRows(rows) == {r \in DOMAIN rows : Len(rows[r]) < 4}

\* the row the k-th record comes from: the k-th row that is not short
RowOf(rows, k) ==
  CHOOSE r \in DOMAIN rows \ ShortRows(rows) :
    Cardinality({q \in DOMAIN rows \ ShortRows(rows) : q <= r}) = k

\* C11: scrape_project_data drops every non-header row of fewer than four cells
\* and yields one record for each other row, in document order: the output has
\* as many records as there are non-header rows less the short ones, and a
\* field whose column lies beyond the row's cells is the empty string.
C11_RowsToRecords ==
  (ListingCalled /\ l_page.outcome = "ok") =>
    /\ l_result.kind = "return"
    /\ LET rows == DataRows(l_page.table)
           out == l_result.value
       IN /\ Len(out) = Len(rows) - Cardinality(ShortRows(rows))
          /\ \A k \in 1..Len(out) :
               LET cells == rows[RowOf(rows, k)]
               IN /\ DOMAIN out[k] = Range(ListingFields)
                  /\ \A j \in DOMAIN ListingFields :
                       out[k][ListingFields[j]] =
                         IF j <= Len(cells) THEN cells[j] ELSE EmptyStr

\* a short row is dropped and the four-cell row after it becomes the only record
C11_Witness ==
  /\ ListingCalled
  /\ l_page.outcome = "ok"
  /\ Len(l_page.table) = 3
  /\ Len(l_page.table[2]) = 3
  /\ Len(l_page.table[3]) = 4
  /\ Len(l_result.value) = 1
  /\ l_result.value[1].acronym = <<"N">>
  /\ l_result.value[1].summary = EmptyStr

----------------------------------------------------------------------------
(* run_ultimate_scrape: a listing without records *)

\* the listing request or its parsing failed, or the page has no table
NoRecordOutcomes == Exceptions \cup {"no_table"}

\* C12: when the listing yields no records (no table, or the fetch or the
\* parsing fails), scrape_project_data returns the empty sequence and the run
\* aborts gracefully: no detail page is fetched, nothing is consolidated or
\* exported, and no exception reaches the caller.
C12_EmptyListingAborts ==
  (pc # "listing") =>
    /\ (listing_page.outcome \in NoRecordOutcomes) =>
         (projects = <<>> /\ main_outcome = "failed")
    /\ (listing_page.outcome # "KeyboardInterrupt" /\ projects = <<>>) =>
         /\ pc = "done"
         /\ main_outcome = "failed"
         /\ events = <<>>
         /\ all_project_details = <<>>
         /\ export = NoneVal

\* the listing request failed and the run ended without a fetch or an export
C12_Witness ==
  /\ pc = "done"
  /\ listing_page.outcome = "HTTPError"
  /\ projects = <<>>
  /\ main_outcome = "failed"
  /\ events = <<>>
  /\ export = NoneVal

----------------------------------------------------------------------------
(* convert_to_dataframe: the columns of the workbook *)

ConvertCalled == c_result # NoneVal

\* the record key each canonical column shows, in the canonical order
CanonicalKeys ==
  <<
    <<"acronym">>, <<"call">>, <<"priority">>, <<"specific", "_", "objective">>,
    <<"title">>, <<"description">>, <<"summary">>, <<"lead", "_", "partner">>,
    <<"partners">>, <<"objectives">>, <<"start", "_", "end">>,
    <<"start", "_", "date">>, <<"end", "_", "date">>, <<"total", "_", "budget">>,
    <<"erdf", "_", "funding">>, <<"norway", "_", "funding">>, <<"budget">>,
    <<"project", "_", "url">>, <<"status">>, <<"main", "_", "content">>, <<"error">>
  >>

\* the canonical columns some record of the data has a key for
PresentColumns(json_data) ==
  {j \in DOMAIN CanonicalKeys : \E i \in DOMAIN json_data : CanonicalKeys[j] \in DOMAIN json_data[i]}

PositionIn(seq, x) == CHOOSE j \in DOMAIN seq : seq[j] = x

\* the cells of the workbook show the records: a record without the key of a
\* column of the workbook has an empty cell there
CellsShowRecords(sheet, json_data) ==
  /\ Len(sheet.rows) = Len(json_data)
  /\ \A i \in DOMAIN json_data : \A c \in DOMAIN sheet.header :
       LET key == CanonicalKeys[PositionIn(column_order, sheet.header[c])]
       IN sheet.rows[i][c] =
            IF key \in DOMAIN json_data[i] THEN json_data[i][key] ELSE EmptyStr

\* C15 as stated: the columns of the workbook are the 21 canonical labels in
\* their fixed order, whatever keys the records have, and a record lacking a
\* canonical column has an empty cell there.
C15_AllCanonicalColumns ==
  (ConvertCalled /\ c_result.excel # NoFile) =>
    /\ c_result.excel.header = column_order
    /\ CellsShowRecords(c_result.excel, c_input.json_data.records)

\* C15 amended: the columns of the workbook are the canonical labels that some
\* record has a key for, in the canonical order; a canonical column no record
\* has is left out, a key of no canonical column is dropped, and a record
\* lacking a column of the workbook has an empty cell there.
C15_PresentCanonicalColumns ==
  (ConvertCalled /\ c_result.excel # NoFile) =>
    LET header == c_result.excel.header
        present == PresentColumns(c_input.json_data.records)
    IN /\ Range(header) = {column_order[j] : j \in present}
       /\ Len(header) = Cardinality(present)
       /\ \A a, b \in DOMAIN header :
            a < b => PositionIn(column_order, header[a]) < PositionIn(column_order, header[b])
       /\ CellsShowRecords(c_result.excel, c_input.json_data.records)

\* no record has 'project_url' and only the second has 'error': the workbook has
\* 20 columns, without 'Project Url', and the first record's Error cell is empty
C15_Witness ==
  /\ ConvertCalled
  /\ c_input.io = "ok"
  /\ c_input.json_data.kind = "list"
  /\ Len(c_input.json_data.records) = 2
  /\ <<"project", "_", "url">> \notin DOMAIN c_input.json_data.records[1] \cup DOMAIN c_input.json_data.records[2]
  /\ <<"error">> \notin DOMAIN c_input.json_data.records[1]
  /\ <<"error">> \in DOMAIN c_input.json_data.records[2]
  /\ Len(c_result.excel.header) = 20
  /\ <<"Project", " ", "Url">> \notin Range(c_result.excel.header)
  /\ c_result.excel.rows[1][20] = EmptyStr
  /\ c_result.excel.rows[2][20] = <<"error", "2">>

----------------------------------------------------------------------------
(* The exports on an empty record sequence *)

\* run_conversion on a JSON file holding the empty list
ConvertsOfEmpty == {run_conversion([io |-> o, json_data |-> JsonList(<<>>)]) : o \in ConvertIo}

ConvertFailure == [outcome |-> Returned(NoneVal), excel |-> NoFile, csv |-> NoFile]

----------------------------------------------------------------------------
(* A failed export *)

\* C14: a failure of the export is reported to the top-level caller as a visible
\* failure and leaves no partial output: whenever create_ultimate_files returns
\* no locations, neither the CSV file nor the JSON file has been written,
\* whichever of the two writes failed.
C14_NoPartialOutput ==
  (pc = "done" /\ export # NoneVal /\ export.ret = NoneVal) =>
    /\ main_outcome = "failed"
    /\ export.csv = NoFile
    /\ export.json = NoFile

----------------------------------------------------------------------------
(* scrape_project_details: the section scan *)

\* the elements of the page the scan visits, in document order
Scanned(doc) == SelectSeq(doc.body, LAMBDA e : e.name \in {"h2", "h3", "p"})

\* the one field a text is classified into, by precedence
FieldOf(text) ==
  IF ContainsKw(text, "objective") \/ ContainsKw(text, "goal") THEN "objectives"
  ELSE IF ContainsKw(text, "start") /\ ContainsKw(text, "date") THEN "start_date"
  ELSE IF ContainsKw(text, "budget") \/ ContainsKw(text, "funding") THEN "budget"
  ELSE "none"

\* the text of the last element classified into a field, '' when there is none
LastOf(doc, field) ==
  LET scanned == Scanned(doc)
      hits == {k \in DOMAIN scanned : FieldOf(scanned[k].text) = field}
  IN IF hits = {} THEN EmptyStr
     ELSE scanned[CHOOSE k \in hits : \A k2 \in hits : k2 <= k].text

\* C16: the h2, h3 and p elements are scanned in document order and each is
\* classified into at most one field, objectives before start_date before
\* budget; a field holds the text of the last element classified into it, or
\* is empty, and an element of a higher class never sets a lower field.
C16_SectionPrecedence ==
  (DetailCalled /\ d_outcome = "ok") =>
    /\ d_result.kind = "return"
    /\ d_result.value.objectives = LastOf(d_doc, "objectives")
    /\ d_result.value.start_date = LastOf(d_doc, "start_date")
    /\ d_result.value.budget = LastOf(d_doc, "budget")

\* an element with the keywords of objectives and of budget follows another
\* objectives element: it replaces objectives and leaves budget empty
C16_Witness ==
  /\ DetailCalled
  /\ d_outcome = "ok"
  /\ d_doc.body = <<El("h2", <<"Objectives">>), El("p", <<"goal", "Budget">>)>>
  /\ d_result.value.objectives = <<"goal", "Budget">>
  /\ d_result.value.budget = EmptyStr

----------------------------------------------------------------------------
(* extract_partner_information: the four heuristics *)

\* the heading body[k] contains the indicator and is followed, before the next
\* heading, by a p, div or span of more than 10 characters
HeadingYields(body, n, k) ==
  /\ body[k].name \in HeadingNames
  /\ ContainsKw(body[k].text, partner_indicators[n])
  /\ \E j \in (k + 1)..Len(body) :
       /\ body[j].name \in {"p", "div", "span"}
       /\ TextLen(body[j].text) > 10
       /\ \A h \in (k + 1)..j : body[h].name \notin HeadingNames

HeadingBlocks(body) ==
  {nk \in (DOMAIN partner_indicators) \X (DOMAIN body) : HeadingYields(body, nk[1], nk[2])}

ParagraphYields(body) ==
  \E k \in DOMAIN body :
    body[k].name = "p" /\ AnyIndicator(body[k].text) /\ TextLen(body[k].text) > 20

ListBlocks(body) ==
  {k \in DOMAIN body :
     /\ body[k].name \in {"ul", "ol"}
     /\ \E m \in DOMAIN body[k].items :
          AnyIndicator(body[k].items[m]) \/ TextLen(body[k].items[m]) > 10}

PatternBlocks(captures) ==
  UNION {{<<p, m>> : m \in {x \in DOMAIN captures[p] : TextLen(Strip(captures[p][x])) > 10}} :
           p \in DOMAIN captures}

CountOf(text, token) == Cardinality({a \in DOMAIN text : text[a] = token})

\* the heuristic a token of the result opens a block of, 0 for any other token
BlockRank(token) ==
  CASE token = ":" -> 1
    [] token = "Partner Information:" -> 2
    [] token = "Partner List:" -> 3
    [] token = "Found:" -> 4
    [] OTHER -> 0

\* C17: extract_partner_information concatenates the blocks of the heading
\* scan, the paragraph scan, the list scan and the pattern scan in this order,
\* without deduplication (what several heuristics or indicators find appears
\* once for each), and returns '' exactly when all four yielded nothing.
C17_PartnerBlocks ==
  (DetailCalled /\ d_outcome = "ok") =>
    LET partners == d_result.value.partners
        body == d_doc.body
    IN /\ (partners = EmptyStr) <=>
            /\ HeadingBlocks(body) = {}
            /\ ~ParagraphYields(body)
            /\ ListBlocks(body) = {}
            /\ PatternBlocks(d_doc.captures) = {}
       /\ CountOf(partners, ":") = Cardinality(HeadingBlocks(body))
       /\ CountOf(partners, "Partner Information:") = IF ParagraphYields(body) THEN 1 ELSE 0
       /\ CountOf(partners, "Partner List:") = Cardinality(ListBlocks(body))
       /\ CountOf(partners, "Found:") = Cardinality(PatternBlocks(d_doc.captures))
       /\ \A a, b \in DOMAIN partners :
            (a < b /\ BlockRank(partners[a]) > 0 /\ BlockRank(partners[b]) > 0)
              => BlockRank(partners[a]) <= BlockRank(partners[b])

\* the heading 'Partners' yields a block for 'partner' and one for 'partners',
\* the paragraph after it a third block, and the same capture two more
C17_Witness ==
  /\ DetailCalled
  /\ d_outcome = "ok"
  /\ d_doc.body = <<El("h2", <<"Partners">>),
                    El("p", <<"University", "of", "Aalborg", "consortium">>)>>
  /\ CountOf(d_result.value.partners, ":") = 2
  /\ CountOf(d_result.value.partners, "Partner Information:") = 1
  /\ CountOf(d_result.value.partners, "Found:") = 2

----------------------------------------------------------------------------
(* The statuses of the consolidated records *)

\* the run went through the listing, the detail loop and the export
RunComplete == pc = "done" /\ export # NoneVal

\* C18: at the end of a complete pipeline run a consolidated record has status
\* 'not_scraped' exactly when its listing record has an empty acronym; every
\* record with a non-empty acronym ends with status 'success' or 'failed'.
C18_NotScrapedIffNoAcronym ==
  RunComplete =>
    /\ Len(export.ultimate_data) = Len(projects)
    /\ \A k \in DOMAIN projects :
         /\ (export.ultimate_data[k].status = "not_scraped") <=>
              (projects[k].acronym = EmptyStr)
         /\ (projects[k].acronym # EmptyStr) =>
              export.ultimate_data[k].status \in {"success", "failed"}

\* a run over a record without acronym, one whose fetch failed and one whose
\* fetch succeeded, in any order
C18_Witness ==
  /\ RunComplete
  /\ \E a, b, c \in DOMAIN projects :
       /\ projects[a].acronym = EmptyStr
       /\ export.ultimate_data[a].status = "not_scraped"
       /\ projects[b].acronym # EmptyStr
       /\ export.ultimate_data[b].status = "failed"
       /\ projects[c].acronym # EmptyStr
       /\ export.ultimate_data[c].status = "success"

====
